---- MODULE Spec2Model ----
(***************************************************************************)
(* PS/2 keyboard emulator (ESP32 USB host to IBM AT keyboard adapter),     *)
(* interrupt driven variant.                                               *)
(*                                                                         *)
(* Specifications:                                                         *)
(*   Spec       the cooperative main loop (loop, parsePS2cmd,              *)
(*              sendPS2scanCode, autorepeat) at byte granularity, running  *)
(*              against the clock edge handler PS2clk_change_isr and a     *)
(*              host that moves the two open collector lines; SpecCmd,     *)
(*              SpecKey and SpecMix are its command side, its key side and *)
(*              both sides on few input values;                            *)
(*   SpecLive   the main loop against a host that follows the protocol,    *)
(*              with fairness;                                             *)
(*   SpecFrame  sendPS2byte, for every byte value 0..255, and readPS2cmd   *)
(*              at the granularity of one digitalWrite; SpecFrameQuiet     *)
(*              without host activity, SpecFrameFair with fairness.        *)
(***************************************************************************)
EXTENDS Naturals, Integers, Sequences, FiniteSets

(* ---------------- line levels and bus states ---------------------------- *)
LOW == 0
HIGH == 1

nClk_nData == 0
Clk_nData == 1
nClk_Data == 2
Clk_Data == 3

(* ---------------- host commands and device responses -------------------- *)
setStatusCmd == 237
diagnosticCmd == 238
set_getScancode == 240
readIdCmd == 242
repeatRateCmd == 243
keybEnableCmd == 244
keybDisableCmd == 245
resendCmd == 254
resetKeybCmd == 255

ackResponse == 250
readIdByte1 == 171
readIdByte2 == 131
selfTestOk == 170
scanCodeVal == 65

breakCode == 240
noPS2cmd == 51

(* ---------------- timing values ------------------------------------------ *)
repeatKeyInterval == 270
makeBreakPS2delay == 40
clkBitTime == 40
clkLowBitTime == clkBitTime - 10
clkHighBitTime == 40
clkHalfBitTime == 20
settleTime == 5
cmdLowTime == 100
isrTime == 8

(* ---------------- bounds of the model ------------------------------------ *)
MaxCmds == 3
MaxKeys == 2
MaxNow == 900

(* one step of the millisecond clock *)
TickMs == 135

(* bytes the host clocks out to the device: the commands, two payloads *)
RxBytes == {resetKeybCmd, readIdCmd, diagnosticCmd, resendCmd, set_getScancode,
            repeatRateCmd, setStatusCmd, keybDisableCmd, 0}

(* key events delivered by the USB host stack *)
Keycodes == {4, 40, 70, 72, 79}
Modifiers == {0, 1, 2, 3, 4, 8, 16, 32, 64, 80, 128, 255}

(* durations (usec) of a clock low phase caused by the host: a glitch       *)
(* shorter than the handler's settling time, a phase shorter and a phase    *)
(* longer than the 100 usec threshold                                       *)
Glitches == {3}
Durations == {99, 101}

(* ---------------- arithmetic on bytes ------------------------------------ *)
Bit(b, i) == (b \div (2 ^ i)) % 2

BitAnd(a, m) == LET RECURSIVE f(_)
                    f(i) == IF i > 7 THEN 0
                            ELSE (Bit(a, i) * Bit(m, i)) * (2 ^ i) + f(i + 1)
                IN f(0)

(* ---------------- USBtoPS2_conversion_table.h ---------------------------- *)
(* scan code set 2 entries {first byte, second byte or 0} of the keycodes   *)
(* in Keycodes                                                              *)
USBtoPS2scanSet2(k) ==
  CASE k = 4  -> <<28, 0>>
    [] k = 40 -> <<90, 0>>
    [] k = 79 -> <<224, 116>>
    [] OTHER  -> <<0, 0>>

PrtPauseMake == <<225, 20, 119, 225, 240, 20, 240, 119>>
PrtScrMake == <<224, 18, 224, 124>>
PrtScrBreak == <<224, 240, 124, 224, 240, 18>>

(* ---------------- sendPS2scanCode: the bytes handed to sendPS2scanbyte --- *)
(* variant: every key is a repeat key *)
repeatKeyAny(USBkeycode) == USBkeycode >= 4

(* repeat keys: letters and numbers, BkSP, Tab, Space, arrow keys *)
repeatKey(USBkeycode) ==
  \/ (USBkeycode >= 4 /\ USBkeycode <= 39)
  \/ (USBkeycode >= 42 /\ USBkeycode <= 44)
  \/ (USBkeycode >= 79 /\ USBkeycode <= 82)

breakPrefix(makeBreak) == IF makeBreak = 0 THEN <<breakCode>> ELSE <<>>

(* switch (mod) of the modifier dispatch *)
modifierKey(mod, makeBreak) ==
  CASE mod = 1  -> breakPrefix(makeBreak) \o <<20>>
    [] mod = 2  -> breakPrefix(makeBreak) \o <<18>>
    [] mod = 4  -> breakPrefix(makeBreak) \o <<17>>
    [] mod = 8  -> breakPrefix(makeBreak) \o <<224, 39>>
    [] mod = 16 -> breakPrefix(makeBreak) \o <<224, 20>>
    [] mod = 32 -> breakPrefix(makeBreak) \o <<89>>
    [] mod = 64 -> breakPrefix(makeBreak) \o <<224, 17>>
    [] OTHER    -> <<>>

(* variant: the modifier bits are walked from bit 6 down to bit 0 *)
RECURSIVE modifierLoopDown(_, _, _)
modifierLoopDown(i, modifier, makeBreak) ==
  IF i >= 7 THEN <<>>
  ELSE LET modifierMask == 2 ^ (6 - i)
           mod == BitAnd(modifier, modifierMask)
       IN (IF mod # 0 THEN modifierKey(mod, makeBreak) ELSE <<>>)
          \o modifierLoopDown(i + 1, modifier, makeBreak)

(* for (int i=0; i < 7; i++) over the modifier bits *)
RECURSIVE modifierLoop(_, _, _)
modifierLoop(i, modifier, makeBreak) ==
  IF i >= 7 THEN <<>>
  ELSE LET modifierMask == 2 ^ i
           mod == BitAnd(modifier, modifierMask)
       IN (IF mod # 0 THEN modifierKey(mod, makeBreak) ELSE <<>>)
          \o modifierLoop(i + 1, modifier, makeBreak)

(* the table bytes of one keycode: byte [0], then byte [1] if non-zero *)
tableBytes(USBkeycode) ==
  <<USBtoPS2scanSet2(USBkeycode)[1]>>
  \o (IF USBtoPS2scanSet2(USBkeycode)[2] # 0
      THEN <<USBtoPS2scanSet2(USBkeycode)[2]>> ELSE <<>>)

(* variant: Pause and PrintScreen releases go through the default branch *)
plainKeySpecialMakeOnly(USBkeycode, makeBreak) ==
  CASE USBkeycode = 72 /\ makeBreak = 1 -> PrtPauseMake
    [] USBkeycode = 70 /\ makeBreak = 1 -> PrtScrMake
    [] OTHER -> breakPrefix(makeBreak) \o tableBytes(USBkeycode)

(* variant: the second table byte is never sent *)
plainKeyFirstByteOnly(USBkeycode, makeBreak) ==
  CASE USBkeycode = 72 -> IF makeBreak = 1 THEN PrtPauseMake ELSE <<>>
    [] USBkeycode = 70 -> IF makeBreak = 1 THEN PrtScrMake ELSE PrtScrBreak
    [] OTHER -> breakPrefix(makeBreak) \o <<USBtoPS2scanSet2(USBkeycode)[1]>>

(* switch (USBkeycode) of the non modifier branch *)
plainKey(USBkeycode, makeBreak) ==
  CASE USBkeycode = 72 -> IF makeBreak = 1 THEN PrtPauseMake ELSE <<>>
    [] USBkeycode = 70 -> IF makeBreak = 1 THEN PrtScrMake ELSE PrtScrBreak
    [] OTHER -> breakPrefix(makeBreak) \o tableBytes(USBkeycode)

(* variant: bit 7 of the modifier byte does not count as a modifier *)
sendPS2scanCodeLowBits(USBkeycode, makeBreak, modifier) ==
  IF BitAnd(modifier, 127) = 0 THEN plainKey(USBkeycode, makeBreak)
  ELSE modifierLoop(0, modifier, makeBreak)

sendPS2scanCode(USBkeycode, makeBreak, modifier) ==
  IF modifier = 0 THEN plainKey(USBkeycode, makeBreak)
  ELSE modifierLoop(0, modifier, makeBreak)

(* ---------------- parsePS2cmd: the bytes handed to sendPS2byte ----------- *)
(* variant: read-ID is answered without the acknowledge *)
ackBytesNotForReadId(cmd) == IF cmd = readIdCmd THEN <<>> ELSE <<ackResponse>>

(* line 330: response on commands *)
ackBytes(cmd) == <<ackResponse>>

(* variant: reset is answered twice *)
responseBytesResetTwice(cmd) ==
  (IF cmd = resetKeybCmd THEN <<selfTestOk, selfTestOk>> ELSE <<>>)
  \o (IF cmd = readIdCmd THEN <<readIdByte1, readIdByte2>> ELSE <<>>)
  \o (IF cmd = diagnosticCmd THEN <<diagnosticCmd>> ELSE <<>>)

(* variant: the two read-ID bytes are swapped *)
responseBytesIdSwapped(cmd) ==
  (IF cmd = resetKeybCmd THEN <<selfTestOk>> ELSE <<>>)
  \o (IF cmd = readIdCmd THEN <<readIdByte2, readIdByte1>> ELSE <<>>)
  \o (IF cmd = diagnosticCmd THEN <<diagnosticCmd>> ELSE <<>>)

(* variant: enable/disable are answered like diagnostic *)
responseBytesEchoAll(cmd) ==
  (IF cmd = resetKeybCmd THEN <<selfTestOk>> ELSE <<>>)
  \o (IF cmd = readIdCmd THEN <<readIdByte1, readIdByte2>> ELSE <<>>)
  \o (IF cmd = diagnosticCmd \/ cmd = keybDisableCmd THEN <<cmd>> ELSE <<>>)

(* lines 336..345: the data response of an eligible command *)
responseBytes(cmd) ==
  (IF cmd = resetKeybCmd THEN <<selfTestOk>> ELSE <<>>)
  \o (IF cmd = readIdCmd THEN <<readIdByte1, readIdByte2>> ELSE <<>>)
  \o (IF cmd = diagnosticCmd THEN <<diagnosticCmd>> ELSE <<>>)

(* lines 347, 350, 353: the commands whose next byte is stored as payload *)
PayloadCmds == {repeatRateCmd, setStatusCmd, set_getScancode}

(* variant: every payload of set/get scan code set is answered *)
scanSetBytesAnyPayload(last, cmd) ==
  IF last = set_getScancode THEN <<scanCodeVal>> ELSE <<>>

(* lines 353..357: answer to a get scan code set query *)
scanSetBytes(last, cmd) ==
  IF last = set_getScancode /\ cmd = 0 THEN <<scanCodeVal>> ELSE <<>>

(* ---------------- state --------------------------------------------------- *)
VARIABLES
  pc, txq, ret,
  PS2cmdReady, PS2cmd, lastPS2cmd, repeatRate, keyboardStatus, setScanCodeVal,
  gotMakeKey, lastUSBkeycode, keyPressedTime, held, bursts, lastStored,
  clkLowCounter, timerOn,
  hostClk, hostData, now,
  out, opKind, opArg, opDone, elig, passed, lowPhase, hostReq, nCmds, nKeys,
  fpc, outByte, fi, trueBitCnt, clkOut, dataOut, fallData, pulses,
  busByte, dly, lowLog, highLog, rxBits, rxByte,
  ipc, previousTime

loopVars == <<pc, txq, ret, PS2cmdReady, PS2cmd, lastPS2cmd, repeatRate,
              keyboardStatus, setScanCodeVal, gotMakeKey, lastUSBkeycode,
              keyPressedTime, held, bursts, lastStored, clkLowCounter,
              timerOn, hostClk, hostData, now,
              out, opKind, opArg, opDone, elig, passed, lowPhase, hostReq,
              nCmds, nKeys>>

(* the boot sequence of the polling variant: position in initPS2 and its    *)
(* local previousTime                                                       *)
bootVars == <<ipc, previousTime>>

frameVars == <<fpc, outByte, fi, trueBitCnt, clkOut, dataOut, fallData, pulses,
               busByte, dly, lowLog, highLog, rxBits, rxByte, bootVars>>

vars == <<loopVars, frameVars>>

(* lastStored: the byte now in lastPS2cmd was stored as a payload *)
cmdVars == <<PS2cmd, lastPS2cmd, repeatRate, keyboardStatus, setScanCodeVal,
             lastStored>>
keyVars == <<gotMakeKey, lastUSBkeycode, keyPressedTime>>
keyHist == <<held, bursts>>
isrVars == <<PS2cmdReady, clkLowCounter, timerOn, lowPhase, hostReq>>
hostVars == <<hostClk, hostData>>
opVars == <<out, opKind, opArg, opDone, elig, passed>>

(* the open collector lines: low when the host or the device pulls low *)
clkBus == IF hostClk = LOW \/ clkOut = LOW THEN LOW ELSE HIGH
dataBus == IF hostData = LOW \/ dataOut = LOW THEN LOW ELSE HIGH

(* returns the PS/2 bus clk and data states: bit0 = clk, bit1 = data *)
readPS2bus ==
  (IF dataBus = HIGH THEN nClk_Data ELSE 0)
  + (IF clkBus = HIGH THEN Clk_nData ELSE 0)

(* state after setup() *)
InitLoop ==
  /\ pc = "poll" /\ txq = <<>> /\ ret = "poll"
  /\ PS2cmdReady = FALSE
  /\ PS2cmd = 0 /\ lastPS2cmd = noPS2cmd
  /\ repeatRate = 0 /\ keyboardStatus = 0 /\ setScanCodeVal = 0
  /\ gotMakeKey = FALSE /\ lastUSBkeycode = 0 /\ keyPressedTime = 0
  /\ held = {} /\ bursts = <<>> /\ lastStored = FALSE
  /\ clkLowCounter = 0 /\ timerOn = FALSE
  /\ hostClk = HIGH /\ hostData = HIGH /\ now = 0
  /\ out = <<>> /\ opKind = "none" /\ opArg = <<>> /\ opDone = FALSE
  /\ elig = FALSE /\ passed = FALSE /\ lowPhase = 0 /\ hostReq = FALSE
  /\ nCmds = 0 /\ nKeys = 0

InitFrameIdle ==
  /\ fpc = "idle" /\ outByte = 0 /\ fi = 0 /\ trueBitCnt = 0
  /\ clkOut = HIGH /\ dataOut = HIGH /\ fallData = <<>> /\ pulses = 0
  /\ busByte = 0 /\ dly = 0 /\ lowLog = <<>> /\ highLog = <<>>
  /\ rxBits = <<>> /\ rxByte = 0
  /\ ipc = "none" /\ previousTime = 0

Init == InitLoop /\ InitFrameIdle

(* ---------------- the PS/2 clock edge triggered ISR ---------------------- *)
(* variant: the length of the clock low phase is not looked at *)
PS2clk_change_isrDataOnly(clkIn, dataIn, cnt) ==
  IF clkIn = LOW
  THEN /\ clkLowCounter' = 0
       /\ timerOn' = TRUE
       /\ PS2cmdReady' = PS2cmdReady
  ELSE /\ timerOn' = FALSE
       /\ clkLowCounter' = cnt
       /\ PS2cmdReady' = IF dataIn = LOW THEN TRUE ELSE PS2cmdReady

(* clkIn, dataIn: the levels the handler reads after its settling delay;    *)
(* cnt: the value of the 1 usec counter when the handler stops it           *)
PS2clk_change_isr(clkIn, dataIn, cnt) ==
  IF clkIn = LOW
  THEN /\ clkLowCounter' = 0
       /\ timerOn' = TRUE
       /\ PS2cmdReady' = PS2cmdReady
  ELSE /\ timerOn' = FALSE
       /\ clkLowCounter' = cnt
       /\ PS2cmdReady' = IF cnt > cmdLowTime /\ dataIn = LOW
                         THEN TRUE ELSE PS2cmdReady

(* the counter as the rising edge handler finds it, d usec after the        *)
(* falling edge handler started it (both handlers settle equally long)      *)
counterAfter(d) == IF timerOn THEN clkLowCounter + d ELSE clkLowCounter

(* a frame bit-banged by the device while the host leaves the clock alone:  *)
(* every pulse runs the handler twice; the longest pulse (progLow plus the  *)
(* handler's own time) with the data line low decides the flag              *)
deviceFrame(progLow) ==
  IF hostClk = HIGH
  THEN /\ PS2clk_change_isr(HIGH, LOW, progLow + isrTime)
       /\ lowPhase' = progLow + isrTime
  ELSE UNCHANGED <<PS2cmdReady, clkLowCounter, timerOn, lowPhase>>

(* ---------------- the host on the two lines ------------------------------ *)
HostClkFall ==
  /\ hostClk = HIGH
  /\ hostClk' = LOW
  /\ IF clkOut = HIGH
     THEN PS2clk_change_isr(LOW, hostData, clkLowCounter)
     ELSE UNCHANGED <<PS2cmdReady, clkLowCounter, timerOn>>
  /\ UNCHANGED <<hostData, lowPhase, hostReq>>
  /\ UNCHANGED <<pc, txq, ret, cmdVars, keyVars, keyHist, now, opVars, nCmds,
                 nKeys>>
  /\ UNCHANGED frameVars

HostClkRiseFrom(durations) ==
  /\ hostClk = LOW
  /\ \E d \in durations :
       /\ hostClk' = HIGH
       /\ IF clkOut = HIGH
          THEN /\ PS2clk_change_isr(HIGH, dataBus, counterAfter(d))
               /\ lowPhase' = d
               /\ hostReq' = (hostReq \/ (d > cmdLowTime /\ hostData = LOW))
          ELSE UNCHANGED isrVars
  /\ UNCHANGED <<hostData>>
  /\ UNCHANGED <<pc, txq, ret, cmdVars, keyVars, keyHist, now, opVars, nCmds,
                 nKeys>>
  /\ UNCHANGED frameVars

HostClkRise == HostClkRiseFrom(Durations)

(* a low pulse shorter than the settling delay: the handler runs for the    *)
(* falling and for the rising edge and reads the clock high both times      *)
HostClkGlitch ==
  /\ hostClk = HIGH /\ clkOut = HIGH
  /\ \E g \in Glitches :
       /\ g < settleTime
       /\ PS2clk_change_isr(HIGH, dataBus, counterAfter(g))
       /\ lowPhase' = g
  /\ UNCHANGED <<hostClk, hostData, hostReq>>
  /\ UNCHANGED <<pc, txq, ret, cmdVars, keyVars, keyHist, now, opVars, nCmds,
                 nKeys>>
  /\ UNCHANGED frameVars

HostData ==
  /\ hostData' = 1 - hostData
  /\ UNCHANGED <<hostClk, isrVars>>
  /\ UNCHANGED <<pc, txq, ret, cmdVars, keyVars, keyHist, now, opVars, nCmds,
                 nKeys>>
  /\ UNCHANGED frameVars

(* millis() advances *)
Tick ==
  /\ now + TickMs <= MaxNow
  /\ now' = now + TickMs
  /\ UNCHANGED <<pc, txq, ret, cmdVars, keyVars, keyHist, isrVars, hostVars,
                 opVars,
                 nCmds, nKeys>>
  /\ UNCHANGED frameVars

(* ---------------- the main loop ------------------------------------------- *)
(* hand bytes to sendPS2byte one after the other, then go on at next *)
Send(bytes, next) ==
  IF bytes = <<>>
  THEN pc' = next /\ txq' = <<>> /\ ret' = next
  ELSE pc' = "tx" /\ txq' = bytes /\ ret' = next

(* sendPS2byte: wait clk=1 and data=1, then clock the frame out *)
sendPS2byte ==
  /\ pc = "tx"
  /\ txq # <<>>
  /\ readPS2bus = Clk_Data
  /\ out' = Append(out, Head(txq))
  /\ txq' = Tail(txq)
  /\ pc' = IF Tail(txq) = <<>> THEN ret ELSE "tx"
  /\ deviceFrame(clkLowBitTime)
  /\ UNCHANGED <<ret, cmdVars, keyVars, keyHist, hostVars, hostReq, now,
                 opKind, opArg,
                 opDone, elig, passed, nCmds, nKeys>>
  /\ UNCHANGED frameVars

(* loop(), line 364: pending PS/2 command from motherboard to be parsed ? *)
Poll ==
  /\ pc = "poll"
  /\ pc' = IF PS2cmdReady THEN "rx" ELSE "repeat"
  /\ out' = <<>> /\ opKind' = "none" /\ opArg' = <<>>
  /\ opDone' = FALSE /\ elig' = FALSE /\ passed' = FALSE
  /\ UNCHANGED <<txq, ret, cmdVars, keyVars, keyHist, isrVars, hostVars, now,
                 nCmds,
                 nKeys>>
  /\ UNCHANGED frameVars

(* parsePS2cmd, lines 329..330: PS2cmd = readPS2cmd(), then the ack *)
readPS2cmdFrom(bytes) ==
  /\ pc = "rx"
  /\ nCmds < MaxCmds
  /\ \E b \in bytes :
       /\ PS2cmd' = b
       /\ opArg' = <<b, lastPS2cmd>>
       /\ Send(ackBytes(b), "clear")
  /\ hostData' = HIGH
  /\ deviceFrame(clkLowBitTime - 6)
  /\ hostReq' = FALSE
  /\ out' = <<>> /\ opKind' = "cmd" /\ opDone' = FALSE /\ elig' = FALSE
  /\ passed' = FALSE
  /\ nCmds' = nCmds + 1
  /\ UNCHANGED <<lastPS2cmd, repeatRate, keyboardStatus, setScanCodeVal,
                 lastStored, keyVars, keyHist, hostClk, now, nKeys>>
  /\ UNCHANGED frameVars

readPS2cmd == readPS2cmdFrom(RxBytes)

(* line 331 *)
ClearReady ==
  /\ pc = "clear"
  /\ PS2cmdReady' = FALSE
  /\ pc' = "window"
  /\ UNCHANGED <<txq, ret, cmdVars, keyVars, keyHist, clkLowCounter, timerOn,
                 lowPhase,
                 hostReq, hostVars, now, opVars, nCmds, nKeys>>
  /\ UNCHANGED frameVars

(* variant: the flag is not tested after the settle window *)
WindowNoTest ==
  /\ pc = "window"
  /\ pc' = "buscheck"
  /\ passed' = ~PS2cmdReady
  /\ UNCHANGED <<txq, ret, cmdVars, keyVars, keyHist, isrVars, hostVars, now,
                 out, opKind, opArg, opDone, elig, nCmds, nKeys>>
  /\ UNCHANGED frameVars

(* lines 332..333: settle window, then if no new PS2 cmd *)
Window ==
  /\ pc = "window"
  /\ pc' = IF ~PS2cmdReady THEN "buscheck" ELSE "last"
  /\ passed' = ~PS2cmdReady
  /\ UNCHANGED <<txq, ret, cmdVars, keyVars, keyHist, isrVars, hostVars, now,
                 out,
                 opKind, opArg, opDone, elig, nCmds, nKeys>>
  /\ UNCHANGED frameVars

(* variant: the data response is sent whatever the bus state read *)
BusCheckAlways ==
  /\ pc = "buscheck"
  /\ elig' = (readPS2bus = Clk_Data)
  /\ Send(responseBytes(PS2cmd), "store")
  /\ UNCHANGED <<cmdVars, keyVars, keyHist, isrVars, hostVars, now, out,
                 opKind, opArg,
                 opDone, passed, nCmds, nKeys>>
  /\ UNCHANGED frameVars

(* lines 334..346: bus idle => the data response of the command *)
BusCheck ==
  /\ pc = "buscheck"
  /\ IF readPS2bus = Clk_Data
     THEN elig' = TRUE /\ Send(responseBytes(PS2cmd), "store")
     ELSE elig' = FALSE /\ Send(<<>>, "store")
  /\ UNCHANGED <<cmdVars, keyVars, keyHist, isrVars, hostVars, now, out,
                 opKind, opArg,
                 opDone, passed, nCmds, nKeys>>
  /\ UNCHANGED frameVars

(* variant: the repeat rate payload is dropped *)
StoreNoRepeatRate ==
  /\ pc = "store"
  /\ repeatRate' = repeatRate
  /\ keyboardStatus' = IF lastPS2cmd = setStatusCmd THEN PS2cmd
                       ELSE keyboardStatus
  /\ setScanCodeVal' = IF lastPS2cmd = set_getScancode THEN PS2cmd
                       ELSE setScanCodeVal
  /\ Send(scanSetBytes(lastPS2cmd, PS2cmd), "last")
  /\ UNCHANGED <<PS2cmd, lastPS2cmd, lastStored, keyVars, keyHist, isrVars,
                 hostVars, now, opVars, nCmds, nKeys>>
  /\ UNCHANGED frameVars

(* lines 347..358: payload of the previous command *)
Store ==
  /\ pc = "store"
  /\ repeatRate' = IF lastPS2cmd = repeatRateCmd THEN PS2cmd ELSE repeatRate
  /\ keyboardStatus' = IF lastPS2cmd = setStatusCmd THEN PS2cmd
                       ELSE keyboardStatus
  /\ setScanCodeVal' = IF lastPS2cmd = set_getScancode THEN PS2cmd
                       ELSE setScanCodeVal
  /\ Send(scanSetBytes(lastPS2cmd, PS2cmd), "last")
  /\ UNCHANGED <<PS2cmd, lastPS2cmd, lastStored, keyVars, keyHist, isrVars,
                 hostVars, now, opVars, nCmds, nKeys>>
  /\ UNCHANGED frameVars

(* variant: a handled command takes the autorepeat candidate away *)
LastDisarms ==
  /\ pc = "last"
  /\ lastPS2cmd' = PS2cmd
  /\ lastStored' = (passed /\ lastPS2cmd \in PayloadCmds)
  /\ opDone' = TRUE
  /\ pc' = "repeat"
  /\ gotMakeKey' = FALSE
  /\ UNCHANGED <<txq, ret, PS2cmd, repeatRate, keyboardStatus, setScanCodeVal,
                 lastUSBkeycode, keyPressedTime, keyHist, isrVars, hostVars,
                 now, out, opKind, opArg, elig, passed, nCmds, nKeys>>
  /\ UNCHANGED frameVars

(* line 360, parsePS2cmd returns *)
Last ==
  /\ pc = "last"
  /\ lastPS2cmd' = PS2cmd
  /\ lastStored' = (passed /\ lastPS2cmd \in PayloadCmds)
  /\ opDone' = TRUE
  /\ pc' = "repeat"
  /\ UNCHANGED <<txq, ret, PS2cmd, repeatRate, keyboardStatus, setScanCodeVal,
                 keyVars, keyHist, isrVars, hostVars, now, out, opKind, opArg, elig,
                 passed, nCmds, nKeys>>
  /\ UNCHANGED frameVars

(* variant: the burst is due as soon as the interval has elapsed *)
RepeatAtInterval ==
  /\ pc = "repeat"
  /\ IF gotMakeKey /\ (now - keyPressedTime) >= repeatKeyInterval
     THEN /\ Send(<<breakCode>> \o tableBytes(lastUSBkeycode), "gap")
          /\ out' = <<>> /\ opKind' = "rpt" /\ opArg' = <<lastUSBkeycode>>
          /\ opDone' = FALSE /\ elig' = FALSE /\ passed' = FALSE
          /\ bursts' = Append(bursts, now)
     ELSE /\ Send(<<>>, "task")
          /\ UNCHANGED <<opVars, bursts>>
  /\ UNCHANGED <<cmdVars, keyVars, held, isrVars, hostVars, now, nCmds, nKeys>>
  /\ UNCHANGED frameVars

(* lines 368..373: USB make key present longer than the repeatKeyInterval ? *)
(* (keyPressedTime <= now <= MaxNow, so the uint32_t difference never wraps) *)
Repeat ==
  /\ pc = "repeat"
  /\ IF gotMakeKey /\ (now - keyPressedTime) > repeatKeyInterval
     THEN /\ Send(<<breakCode>> \o tableBytes(lastUSBkeycode), "gap")
          /\ out' = <<>> /\ opKind' = "rpt" /\ opArg' = <<lastUSBkeycode>>
          /\ opDone' = FALSE /\ elig' = FALSE /\ passed' = FALSE
          /\ bursts' = Append(bursts, now)
     ELSE /\ Send(<<>>, "task")
          /\ UNCHANGED <<opVars, bursts>>
  /\ UNCHANGED <<cmdVars, keyVars, held, isrVars, hostVars, now, nCmds, nKeys>>
  /\ UNCHANGED frameVars

(* variant: a pending host command is parsed during the make/break delay *)
RepeatMakePolling ==
  /\ pc = "gap"
  /\ now + makeBreakPS2delay <= MaxNow
  /\ now' = now + makeBreakPS2delay
  /\ IF PS2cmdReady
     THEN pc' = "rx" /\ UNCHANGED <<txq, ret>>
     ELSE Send(tableBytes(lastUSBkeycode), "restart")
  /\ UNCHANGED <<cmdVars, keyVars, keyHist, isrVars, hostVars, opVars, nCmds,
                 nKeys>>
  /\ UNCHANGED frameVars

(* variant: usbHost.task() runs in the delay and the make key is not sent *)
RepeatMakeYields ==
  /\ pc = "gap"
  /\ now + makeBreakPS2delay <= MaxNow
  /\ now' = now + makeBreakPS2delay
  /\ Send(<<>>, "task")
  /\ UNCHANGED <<cmdVars, keyVars, keyHist, isrVars, hostVars, opVars, nCmds,
                 nKeys>>
  /\ UNCHANGED frameVars

(* lines 374..378: delay between PS/2 make and break, then the make key *)
RepeatMake ==
  /\ pc = "gap"
  /\ now + makeBreakPS2delay <= MaxNow
  /\ now' = now + makeBreakPS2delay
  /\ Send(tableBytes(lastUSBkeycode), "restart")
  /\ UNCHANGED <<cmdVars, keyVars, keyHist, isrVars, hostVars, opVars, nCmds,
                 nKeys>>
  /\ UNCHANGED frameVars

(* line 379: restart timer for repeat key *)
RepeatRestart ==
  /\ pc = "restart"
  /\ keyPressedTime' = now
  /\ opDone' = TRUE
  /\ pc' = "task"
  /\ UNCHANGED <<txq, ret, cmdVars, gotMakeKey, lastUSBkeycode, keyHist,
                 isrVars,
                 hostVars, now, out, opKind, opArg, elig, passed, nCmds,
                 nKeys>>
  /\ UNCHANGED frameVars

(* line 381, usbHost.task() without a key transition *)
TaskIdle ==
  /\ pc = "task"
  /\ pc' = "poll"
  /\ UNCHANGED <<txq, ret, cmdVars, keyVars, keyHist, isrVars, hostVars, now,
                 opVars,
                 nCmds, nKeys>>
  /\ UNCHANGED frameVars

(* line 381, usbHost.task() calling onKeyboardKey -> sendPS2scanCode *)
onKeyboardKeyFrom(keycodes, modifiers) ==
  /\ pc = "task"
  /\ nKeys < MaxKeys
  /\ \E keycode \in keycodes, makeBreak \in {0, 1}, modifier \in modifiers :
       /\ IF makeBreak = 1
          THEN keycode \notin held /\ held' = held \cup {keycode}
          ELSE keycode \in held /\ held' = held \ {keycode}
       /\ IF modifier = 0
          THEN IF makeBreak = 0
               THEN IF repeatKey(keycode)
                    THEN /\ gotMakeKey' = TRUE
                         /\ lastUSBkeycode' = keycode
                         /\ keyPressedTime' = now
                    ELSE UNCHANGED keyVars
               ELSE /\ gotMakeKey' = FALSE
                    /\ UNCHANGED <<lastUSBkeycode, keyPressedTime>>
          ELSE UNCHANGED keyVars
       /\ Send(sendPS2scanCode(keycode, makeBreak, modifier), "keydone")
       /\ opArg' = <<keycode, makeBreak, modifier>>
  /\ out' = <<>> /\ opKind' = "key" /\ opDone' = FALSE /\ elig' = FALSE
  /\ passed' = FALSE
  /\ nKeys' = nKeys + 1
  /\ UNCHANGED <<cmdVars, bursts, isrVars, hostVars, now, nCmds>>
  /\ UNCHANGED frameVars

onKeyboardKey == onKeyboardKeyFrom(Keycodes, Modifiers)

(* sendPS2scanCode returns, usbHost.task() returns *)
KeyDone ==
  /\ pc = "keydone"
  /\ opDone' = TRUE
  /\ pc' = "poll"
  /\ UNCHANGED <<txq, ret, cmdVars, keyVars, keyHist, isrVars, hostVars, now,
                 out,
                 opKind, opArg, elig, passed, nCmds, nKeys>>
  /\ UNCHANGED frameVars

Next ==
  \/ HostClkFall \/ HostClkRise \/ HostClkGlitch \/ HostData \/ Tick
  \/ sendPS2byte \/ Poll \/ readPS2cmd \/ ClearReady \/ Window \/ BusCheck
  \/ Store \/ Last \/ Repeat \/ RepeatMake \/ RepeatRestart
  \/ TaskIdle \/ onKeyboardKey \/ KeyDone

Spec == Init /\ [][Next]_vars

(* the command side alone: no key is touched *)
NextCmd ==
  \/ HostClkFall \/ HostClkRise \/ HostClkGlitch \/ HostData
  \/ sendPS2byte \/ Poll \/ readPS2cmd \/ ClearReady \/ Window \/ BusCheck
  \/ Store \/ Last \/ Repeat \/ TaskIdle

SpecCmd == Init /\ [][NextCmd]_vars

(* the key side alone: the host never requests to send *)
NextKey ==
  \/ HostData \/ Tick
  \/ sendPS2byte \/ Poll \/ Repeat \/ RepeatMake \/ RepeatRestart
  \/ TaskIdle \/ onKeyboardKey \/ KeyDone

SpecKey == Init /\ [][NextKey]_vars

(* commands, key events and autorepeat together, on few input values *)
MixBytes == {resetKeybCmd, keybEnableCmd}
MixKeycodes == {4}
MixModifiers == {0}

NextMix ==
  \/ HostClkFall \/ HostClkRise \/ HostData \/ Tick
  \/ sendPS2byte \/ Poll \/ readPS2cmdFrom(MixBytes) \/ ClearReady \/ Window
  \/ BusCheck \/ Store \/ Last \/ Repeat \/ RepeatMake \/ RepeatRestart
  \/ TaskIdle \/ onKeyboardKeyFrom(MixKeycodes, MixModifiers) \/ KeyDone

SpecMix == Init /\ [][NextMix]_vars

(* a host that follows the protocol: it requests to send by holding the     *)
(* clock low for more than 100 usec with the data line low, lets the clock  *)
(* go, keeps the data line low until readPS2cmd has clocked the byte in,    *)
(* and leaves both lines alone otherwise                                    *)
hostRequestStart ==
  /\ ~hostReq /\ hostData = HIGH /\ nCmds < MaxCmds
  /\ HostClkFall

hostRequestData ==
  /\ hostClk = LOW /\ hostData = HIGH
  /\ HostData

hostRequestRelease ==
  /\ hostData = LOW
  /\ HostClkRiseFrom({d \in Durations : d > cmdLowTime})

(* millis() advances, leaving room for the delay(makeBreakPS2delay) of a    *)
(* burst below MaxNow                                                       *)
TickRoom ==
  /\ now + TickMs + makeBreakPS2delay <= MaxNow
  /\ Tick

(* the statements of loop() and of what it calls *)
loopStep ==
  \/ sendPS2byte \/ Poll \/ readPS2cmdFrom(MixBytes) \/ ClearReady \/ Window
  \/ BusCheck \/ Store \/ Last \/ Repeat \/ RepeatMake \/ RepeatRestart
  \/ TaskIdle \/ onKeyboardKeyFrom(MixKeycodes, MixModifiers) \/ KeyDone

NextLive ==
  \/ hostRequestStart \/ hostRequestData \/ hostRequestRelease
  \/ TickRoom \/ loopStep

(* the processor keeps executing loop(); the host completes a request it    *)
(* has started                                                              *)
SpecLive ==
  /\ Init /\ [][NextLive]_vars
  /\ WF_vars(loopStep)
  /\ WF_vars(hostRequestData \/ hostRequestRelease)

(* key events between host commands that change the interpreter's state:   *)
(* keyboard disable, set repeat rate and its payload                        *)
IndBytes == {keybDisableCmd, repeatRateCmd}
IndKeycodes == {4, 70}
IndModifiers == {0, 2}

NextInd ==
  \/ hostRequestStart \/ hostRequestData \/ hostRequestRelease \/ Tick
  \/ sendPS2byte \/ Poll \/ readPS2cmdFrom(IndBytes) \/ ClearReady \/ Window
  \/ BusCheck \/ Store \/ Last \/ Repeat \/ RepeatMake \/ RepeatRestart
  \/ TaskIdle \/ onKeyboardKeyFrom(IndKeycodes, IndModifiers) \/ KeyDone

SpecInd == Init /\ [][NextInd]_vars

TypeOK ==
  /\ pc \in {"poll", "rx", "tx", "clear", "window", "buscheck", "store",
             "last", "repeat", "gap", "restart", "task", "keydone"}
  /\ PS2cmdReady \in BOOLEAN
  /\ hostClk \in {LOW, HIGH} /\ hostData \in {LOW, HIGH}

(* ---------------- sendPS2byte, one digitalWrite at a time ----------------- *)
(* what a frame step leaves alone of the main loop's state *)
loopRest == <<pc, txq, ret, cmdVars, keyVars, keyHist, hostVars, now, opVars,
              hostReq, nCmds, nKeys, bootVars>>
edgeVars == <<PS2cmdReady, clkLowCounter, timerOn, lowPhase>>

(* the device's own clock output; a falling edge presents the data line to  *)
(* the host (fallData), a rising edge ends one pulse (pulses); dly is the    *)
(* programmed delay since the previous clock write, logged as the length of *)
(* the phase that ends here; an edge that shows on the bus runs the handler *)
writeClk(level) ==
  /\ clkOut' = level
  /\ fallData' = IF clkOut = HIGH /\ level = LOW
                 THEN Append(fallData, dataOut) ELSE fallData
  /\ pulses' = IF clkOut = LOW /\ level = HIGH THEN pulses + 1 ELSE pulses
  /\ highLog' = IF clkOut = HIGH /\ level = LOW
                THEN Append(highLog, dly) ELSE highLog
  /\ lowLog' = IF clkOut = LOW /\ level = HIGH
               THEN Append(lowLog, dly) ELSE lowLog
  /\ IF hostClk = HIGH /\ clkOut # level
     THEN /\ PS2clk_change_isr(level, dataBus, counterAfter(dly + isrTime))
          /\ lowPhase' = IF level = HIGH THEN dly + isrTime ELSE lowPhase
     ELSE UNCHANGED edgeVars

(* variant: most significant bit first *)
dataBitMsbFirst(byte, i) == Bit(byte, 7 - i)

(* line 254: (outByte >> i) & 0x01 *)
dataBit(byte, i) == Bit(byte, i)

(* variant: even parity *)
parityBitEven(cnt) == IF BitAnd(cnt, 1) = 0 THEN LOW ELSE HIGH

(* lines 269..270: set odd parity *)
parityBit(cnt) == IF BitAnd(cnt, 1) = 0 THEN HIGH ELSE LOW

(* line 246 calling readPS2bus, line 323: the data line is read first *)
txReadData ==
  /\ fpc = "L246"
  /\ busByte' = IF dataBus = HIGH THEN nClk_Data ELSE 0
  /\ fpc' = "L324"
  /\ UNCHANGED <<rxBits, rxByte, outByte, fi, trueBitCnt, clkOut, dataOut,
                 fallData, pulses,
                 dly, lowLog, highLog>>
  /\ UNCHANGED <<loopRest, edgeVars>>

(* variant: the wait looks at the clock line only *)
txWaitClkOnly ==
  /\ fpc = "L324"
  /\ busByte' = busByte + (IF clkBus = HIGH THEN Clk_nData ELSE 0)
  /\ fpc' = IF clkBus = HIGH THEN "L247" ELSE "L246"
  /\ UNCHANGED <<rxBits, rxByte, outByte, fi, trueBitCnt, clkOut, dataOut,
                 fallData, pulses,
                 dly, lowLog, highLog>>
  /\ UNCHANGED <<loopRest, edgeVars>>

(* line 324: the clock line is read; line 246: wait clk=1 and data = 1 *)
txWaitIdle ==
  /\ fpc = "L324"
  /\ busByte' = busByte + (IF clkBus = HIGH THEN Clk_nData ELSE 0)
  /\ fpc' = IF busByte' = Clk_Data THEN "L247" ELSE "L246"
  /\ UNCHANGED <<rxBits, rxByte, outByte, fi, trueBitCnt, clkOut, dataOut,
                 fallData, pulses,
                 dly, lowLog, highLog>>
  /\ UNCHANGED <<loopRest, edgeVars>>

(* lines 247..248: start bit, data low, 1/4 period start bit setup *)
txStartBit ==
  /\ fpc = "L247"
  /\ dataOut' = LOW
  /\ dly' = dly + clkHalfBitTime
  /\ fpc' = "L249"
  /\ UNCHANGED <<rxBits, rxByte, outByte, fi, trueBitCnt, clkOut, fallData,
                 pulses, busByte,
                 lowLog, highLog>>
  /\ UNCHANGED <<loopRest, edgeVars>>

(* lines 249..250: neg. clk edge for start bit, clk low period *)
txStartClkLow ==
  /\ fpc = "L249"
  /\ writeClk(LOW)
  /\ dly' = clkLowBitTime
  /\ fpc' = "L251"
  /\ UNCHANGED <<rxBits, rxByte, outByte, fi, trueBitCnt, dataOut, busByte>>
  /\ UNCHANGED loopRest

(* lines 251..253: clk high, for (int i=0; ...), 1/4 period data bit setup *)
txStartClkHigh ==
  /\ fpc = "L251"
  /\ writeClk(HIGH)
  /\ dly' = clkHalfBitTime - 7
  /\ fi' = 0
  /\ fpc' = "L254"
  /\ UNCHANGED <<rxBits, rxByte, outByte, trueBitCnt, dataOut, busByte>>
  /\ UNCHANGED loopRest

(* lines 254..261: set the data bit, count the binary ones, 1/4 period *)
txDataBit ==
  /\ fpc = "L254"
  /\ IF dataBit(outByte, fi) = 1
     THEN trueBitCnt' = (trueBitCnt + 1) % 256 /\ dataOut' = HIGH
     ELSE trueBitCnt' = trueBitCnt /\ dataOut' = LOW
  /\ dly' = dly + clkHalfBitTime + 3
  /\ fpc' = "L263"
  /\ UNCHANGED <<rxBits, rxByte, outByte, fi, clkOut, fallData, pulses,
                 busByte, lowLog,
                 highLog>>
  /\ UNCHANGED <<loopRest, edgeVars>>

(* variant: a data bit is given up when the host holds the clock low *)
txDataClkLowOrAbort ==
  /\ fpc = "L263"
  /\ writeClk(IF hostClk = LOW THEN HIGH ELSE LOW)
  /\ dly' = clkLowBitTime - 4
  /\ fpc' = IF hostClk = LOW THEN "done" ELSE "L265"
  /\ UNCHANGED <<rxBits, rxByte, outByte, fi, trueBitCnt, dataOut, busByte>>
  /\ UNCHANGED loopRest

(* lines 263..264: neg. clk edge for data bit, clk low period *)
txDataClkLow ==
  /\ fpc = "L263"
  /\ writeClk(LOW)
  /\ dly' = clkLowBitTime - 4
  /\ fpc' = "L265"
  /\ UNCHANGED <<rxBits, rxByte, outByte, fi, trueBitCnt, dataOut, busByte>>
  /\ UNCHANGED loopRest

(* lines 265, 252: clk high, i++, i<8; then line 253 or line 268 *)
txDataClkHigh ==
  /\ fpc = "L265"
  /\ writeClk(HIGH)
  /\ dly' = IF fi + 1 < 8 THEN clkHalfBitTime - 7 ELSE clkHalfBitTime
  /\ fi' = fi + 1
  /\ fpc' = IF fi + 1 < 8 THEN "L254" ELSE "L269"
  /\ UNCHANGED <<rxBits, rxByte, outByte, trueBitCnt, dataOut, busByte>>
  /\ UNCHANGED loopRest

(* lines 269..271: send odd parity, 1/4 period *)
txParityBit ==
  /\ fpc = "L269"
  /\ dataOut' = parityBit(trueBitCnt)
  /\ dly' = dly + clkHalfBitTime
  /\ fpc' = "L272"
  /\ UNCHANGED <<rxBits, rxByte, outByte, fi, trueBitCnt, clkOut, fallData,
                 pulses, busByte,
                 lowLog, highLog>>
  /\ UNCHANGED <<loopRest, edgeVars>>

(* lines 272..273: neg. clk edge for parity bit, clk low period *)
txParityClkLow ==
  /\ fpc = "L272"
  /\ writeClk(LOW)
  /\ dly' = clkLowBitTime
  /\ fpc' = "L274"
  /\ UNCHANGED <<rxBits, rxByte, outByte, fi, trueBitCnt, dataOut, busByte>>
  /\ UNCHANGED loopRest

(* lines 274..275: clk high, 1/4 period stop bit setup *)
txParityClkHigh ==
  /\ fpc = "L274"
  /\ writeClk(HIGH)
  /\ dly' = clkHalfBitTime
  /\ fpc' = "L276"
  /\ UNCHANGED <<rxBits, rxByte, outByte, fi, trueBitCnt, dataOut, busByte>>
  /\ UNCHANGED loopRest

(* variant: the data line is left as the parity bit set it *)
txStopBitKeepData ==
  /\ fpc = "L276"
  /\ dataOut' = dataOut
  /\ dly' = dly + clkHalfBitTime
  /\ fpc' = "L278"
  /\ UNCHANGED <<rxBits, rxByte, outByte, fi, trueBitCnt, clkOut, fallData,
                 pulses, busByte, lowLog, highLog>>
  /\ UNCHANGED <<loopRest, edgeVars>>

(* lines 276..277: set stop bit, 1/4 period *)
txStopBit ==
  /\ fpc = "L276"
  /\ dataOut' = HIGH
  /\ dly' = dly + clkHalfBitTime
  /\ fpc' = "L278"
  /\ UNCHANGED <<rxBits, rxByte, outByte, fi, trueBitCnt, clkOut, fallData,
                 pulses, busByte,
                 lowLog, highLog>>
  /\ UNCHANGED <<loopRest, edgeVars>>

(* lines 278..279: neg. clk edge for stop bit, clk low period *)
txStopClkLow ==
  /\ fpc = "L278"
  /\ writeClk(LOW)
  /\ dly' = clkLowBitTime
  /\ fpc' = "L280"
  /\ UNCHANGED <<rxBits, rxByte, outByte, fi, trueBitCnt, dataOut, busByte>>
  /\ UNCHANGED loopRest

(* line 280: clk high, sendPS2byte returns *)
txStopClkHigh ==
  /\ fpc = "L280"
  /\ writeClk(HIGH)
  /\ dly' = 0
  /\ fpc' = "done"
  /\ UNCHANGED <<rxBits, rxByte, outByte, fi, trueBitCnt, dataOut, busByte>>
  /\ UNCHANGED loopRest

(* ---------------- readPS2cmd, one digitalWrite at a time ------------------ *)
(* variant: the first sample becomes the most significant bit *)
RECURSIVE rxAssembleMsbFirst(_, _)
rxAssembleMsbFirst(bits, i) ==
  IF i >= 8 THEN 0
  ELSE (IF bits[i + 1] = HIGH THEN 2 ^ (7 - i) ELSE 0)
       + rxAssembleMsbFirst(bits, i + 1)

(* rxByte = 0; for (i=0; i<8; i++) if (PS2rxBits[i]) rxByte |= 0x01 << i *)
RECURSIVE rxAssemble(_, _)
rxAssemble(bits, i) ==
  IF i >= 8 THEN 0
  ELSE (IF bits[i + 1] = HIGH THEN 2 ^ i ELSE 0) + rxAssemble(bits, i + 1)

(* lines 288..290: PS2 clk low, i = 0, clk low period *)
rxFirstClkLow ==
  /\ fpc = "R288"
  /\ writeClk(LOW)
  /\ dly' = clkLowBitTime - 6
  /\ fi' = 0
  /\ fpc' = "R291"
  /\ UNCHANGED <<rxBits, rxByte, outByte, trueBitCnt, dataOut, busByte>>
  /\ UNCHANGED loopRest

(* lines 291..293: PS2 clk high, sample the data line, clk high period *)
rxClkHigh ==
  /\ fpc = "R291"
  /\ writeClk(HIGH)
  /\ rxBits' = Append(rxBits, dataBus)
  /\ dly' = clkHighBitTime
  /\ fpc' = "R294"
  /\ UNCHANGED <<rxByte, outByte, fi, trueBitCnt, dataOut, busByte>>
  /\ UNCHANGED loopRest

(* lines 294, 289: PS2 clk low, i++, i<9; then line 290 or line 296 *)
rxClkLow ==
  /\ fpc = "R294"
  /\ writeClk(LOW)
  /\ dly' = clkLowBitTime - 6
  /\ fi' = fi + 1
  /\ fpc' = IF fi + 1 < 9 THEN "R291" ELSE "R297"
  /\ UNCHANGED <<rxBits, rxByte, outByte, trueBitCnt, dataOut, busByte>>
  /\ UNCHANGED loopRest

(* lines 297..298: PS2 clk high *)
rxStopClkHigh ==
  /\ fpc = "R297"
  /\ writeClk(HIGH)
  /\ dly' = clkHalfBitTime
  /\ fpc' = "R299"
  /\ UNCHANGED <<rxBits, rxByte, outByte, fi, trueBitCnt, dataOut, busByte>>
  /\ UNCHANGED loopRest

(* lines 299..300: PS2 data pin low, ACK start *)
rxAckStart ==
  /\ fpc = "R299"
  /\ dataOut' = LOW
  /\ dly' = dly + clkHalfBitTime
  /\ fpc' = "R301"
  /\ UNCHANGED <<rxBits, rxByte, outByte, fi, trueBitCnt, clkOut, fallData,
                 pulses, busByte, lowLog, highLog>>
  /\ UNCHANGED <<loopRest, edgeVars>>

(* lines 301..302: PS2 clk low for sending ACK *)
rxAckClkLow ==
  /\ fpc = "R301"
  /\ writeClk(LOW)
  /\ dly' = clkLowBitTime - 6
  /\ fpc' = "R303"
  /\ UNCHANGED <<rxBits, rxByte, outByte, fi, trueBitCnt, dataOut, busByte>>
  /\ UNCHANGED loopRest

(* variant: a full clock high time before the ACK is taken back *)
rxAckClkHighLong ==
  /\ fpc = "R303"
  /\ writeClk(HIGH)
  /\ dly' = clkHighBitTime
  /\ fpc' = "R305"
  /\ UNCHANGED <<rxBits, rxByte, outByte, fi, trueBitCnt, dataOut, busByte>>
  /\ UNCHANGED loopRest

(* lines 303..304: PS2 clk high *)
rxAckClkHigh ==
  /\ fpc = "R303"
  /\ writeClk(HIGH)
  /\ dly' = clkHalfBitTime
  /\ fpc' = "R305"
  /\ UNCHANGED <<rxBits, rxByte, outByte, fi, trueBitCnt, dataOut, busByte>>
  /\ UNCHANGED loopRest

(* lines 305..306: PS2 data pin high, ACK end *)
rxAckEnd ==
  /\ fpc = "R305"
  /\ dataOut' = HIGH
  /\ dly' = dly + clkHalfBitTime
  /\ fpc' = "R307"
  /\ UNCHANGED <<rxBits, rxByte, outByte, fi, trueBitCnt, clkOut, fallData,
                 pulses, busByte, lowLog, highLog>>
  /\ UNCHANGED <<loopRest, edgeVars>>

(* lines 307..308: PS2 clk low for sending ACK *)
rxLastClkLow ==
  /\ fpc = "R307"
  /\ writeClk(LOW)
  /\ dly' = clkLowBitTime - 6
  /\ fpc' = "R309"
  /\ UNCHANGED <<rxBits, rxByte, outByte, fi, trueBitCnt, dataOut, busByte>>
  /\ UNCHANGED loopRest

(* lines 309..317: PS2 clk high, the byte is put together and returned *)
rxLastClkHigh ==
  /\ fpc = "R309"
  /\ writeClk(HIGH)
  /\ dly' = 0
  /\ rxByte' = rxAssemble(rxBits, 0)
  /\ fpc' = "rxdone"
  /\ UNCHANGED <<rxBits, outByte, fi, trueBitCnt, dataOut, busByte>>
  /\ UNCHANGED loopRest

(* sendPS2byte(outbyte, beforeDelay) is entered with any byte value, or     *)
(* readPS2cmd is entered after its delay for the motherboard                *)
InitFrame ==
  /\ InitLoop
  /\ \/ fpc = "L246" /\ outByte \in 0..255
     \/ fpc = "R288" /\ outByte = 0
  /\ fi = 0 /\ trueBitCnt = 0
  /\ clkOut = HIGH /\ dataOut = HIGH /\ fallData = <<>> /\ pulses = 0
  /\ busByte = 0 /\ dly = 0 /\ lowLog = <<>> /\ highLog = <<>>
  /\ rxBits = <<>> /\ rxByte = 0
  /\ ipc = "none" /\ previousTime = 0

(* the host on the lines while the device runs one frame *)
hostOnBus ==
  /\ fpc \notin {"done", "rxdone"}
  /\ \/ HostData
     \/ HostClkFall
     \/ HostClkRise

NextFrame ==
  \/ txReadData \/ txWaitIdle \/ txStartBit \/ txStartClkLow \/ txStartClkHigh
  \/ txDataBit \/ txDataClkLow \/ txDataClkHigh
  \/ txParityBit \/ txParityClkLow \/ txParityClkHigh
  \/ txStopBit \/ txStopClkLow \/ txStopClkHigh
  \/ rxFirstClkLow \/ rxClkHigh \/ rxClkLow \/ rxStopClkHigh \/ rxAckStart
  \/ rxAckClkLow \/ rxAckClkHigh \/ rxAckEnd \/ rxLastClkLow \/ rxLastClkHigh
  \/ hostOnBus

SpecFrame == InitFrame /\ [][NextFrame]_vars

(* the processor keeps executing: a delayMicroseconds ends and the next     *)
(* statement of sendPS2byte or readPS2cmd runs                              *)
frameStep ==
  \/ txReadData \/ txWaitIdle \/ txStartBit \/ txStartClkLow \/ txStartClkHigh
  \/ txDataBit \/ txDataClkLow \/ txDataClkHigh
  \/ txParityBit \/ txParityClkLow \/ txParityClkHigh
  \/ txStopBit \/ txStopClkLow \/ txStopClkHigh
  \/ rxFirstClkLow \/ rxClkHigh \/ rxClkLow \/ rxStopClkHigh \/ rxAckStart
  \/ rxAckClkLow \/ rxAckClkHigh \/ rxAckEnd \/ rxLastClkLow \/ rxLastClkHigh

(* one frame with a host that asserts neither line *)
SpecFrameQuiet == InitFrame /\ [][frameStep]_vars

SpecFrameFair == InitFrame /\ [][NextFrame]_vars /\ WF_vars(frameStep)

(* ---------------- the polling variant: setup() calling initPS2 ----------- *)
(* (Usbhost_Keyboard_to_PS2.ino, lines 559..707; no edge handler there)     *)
initTimeOut == 33000

(* one step of millis() during the boot sequence and where it stops *)
BootTickMs == 11000
MaxBootNow == 44000

(* bytes the motherboard sends during the boot sequence *)
BootBytes == {resetKeybCmd, readIdCmd, set_getScancode, 0}

(* what initPS2 does not touch *)
bootIdle == <<pc, PS2cmdReady, lastStored, keyVars, keyHist, clkLowCounter,
              timerOn, opKind, opArg, opDone, elig, passed, lowPhase, hostReq,
              nCmds, nKeys, fpc, outByte, fi, trueBitCnt, clkOut, dataOut,
              fallData, pulses, busByte, dly, lowLog, highLog, rxBits, rxByte>>

(* setup() has written both outputs high and enters initPS2 at line 665 *)
InitBoot ==
  /\ InitLoop
  /\ fpc = "idle" /\ outByte = 0 /\ fi = 0 /\ trueBitCnt = 0
  /\ clkOut = HIGH /\ dataOut = HIGH /\ fallData = <<>> /\ pulses = 0
  /\ busByte = 0 /\ dly = 0 /\ lowLog = <<>> /\ highLog = <<>>
  /\ rxBits = <<>> /\ rxByte = 0
  /\ ipc = "I666" /\ previousTime = now

(* millis() - previousTime < initTimeOut *)
bootInTime == (now - previousTime) < initTimeOut

(* the motherboard moves a line *)
bootHostClk ==
  /\ ipc # "I706"
  /\ hostClk' = 1 - hostClk
  /\ UNCHANGED <<hostData, now, txq, ret, cmdVars, out, bootVars, bootIdle>>

bootHostData ==
  /\ ipc # "I706"
  /\ hostData' = 1 - hostData
  /\ UNCHANGED <<hostClk, now, txq, ret, cmdVars, out, bootVars, bootIdle>>

bootTick ==
  /\ now + BootTickMs <= MaxBootNow
  /\ now' = now + BootTickMs
  /\ UNCHANGED <<hostVars, txq, ret, cmdVars, out, bootVars, bootIdle>>

(* line 666: while ((millis() - previousTime) < initTimeOut) *)
bootOuter ==
  /\ ipc = "I666"
  /\ ipc' = IF bootInTime THEN "I667" ELSE "I706"
  /\ UNCHANGED <<previousTime, hostVars, now, txq, ret, cmdVars, out, bootIdle>>

(* line 667: wait for clk = 0 and data = 0, or for the timeout *)
bootWaitRequest ==
  /\ ipc = "I667"
  /\ ~(readPS2bus # nClk_nData /\ bootInTime)
  /\ ipc' = "I668"
  /\ UNCHANGED <<previousTime, hostVars, now, txq, ret, cmdVars, out, bootIdle>>

(* line 668: wait while clk = 0 and data = 0, or for the timeout *)
bootWaitRelease ==
  /\ ipc = "I668"
  /\ ~(readPS2bus = nClk_nData /\ bootInTime)
  /\ ipc' = "I669"
  /\ UNCHANGED <<previousTime, hostVars, now, txq, ret, cmdVars, out, bootIdle>>

(* line 669: clk = 1 and data = 0 => PS2cmd ready *)
bootTest ==
  /\ ipc = "I669"
  /\ ipc' = IF readPS2bus = Clk_nData THEN "I670" ELSE "I666"
  /\ UNCHANGED <<previousTime, hostVars, now, txq, ret, cmdVars, out, bootIdle>>

(* lines 670..671: PS2cmd = readPS2cmd(), then the ack is handed over *)
bootRead ==
  /\ ipc = "I670"
  /\ \E b \in BootBytes :
       /\ PS2cmd' = b
       /\ txq' = ackBytes(b)
  /\ ret' = "I672" /\ ipc' = "I582"
  /\ out' = <<>>
  /\ UNCHANGED <<lastPS2cmd, repeatRate, keyboardStatus, setScanCodeVal,
                 lastStored, previousTime, hostVars, now, bootIdle>>

(* lines 578..: sendPS2byte waits clk=1 and data = 1, then sends the byte *)
bootSend ==
  /\ ipc = "I582"
  /\ readPS2bus = Clk_Data
  /\ out' = Append(out, Head(txq))
  /\ txq' = Tail(txq)
  /\ ipc' = IF Tail(txq) = <<>> THEN ret ELSE "I582"
  /\ UNCHANGED <<ret, cmdVars, previousTime, hostVars, now, bootIdle>>

(* lines 672..673: if no new PS2 cmd then *)
bootWindow ==
  /\ ipc = "I672"
  /\ ipc' = IF readPS2bus # nClk_nData THEN "I674" ELSE "I703"
  /\ UNCHANGED <<previousTime, hostVars, now, txq, ret, cmdVars, out, bootIdle>>

(* lines 674..686: bus idle => the data response of the command *)
bootBusCheck ==
  /\ ipc = "I674"
  /\ IF readPS2bus = Clk_Data /\ responseBytes(PS2cmd) # <<>>
     THEN txq' = responseBytes(PS2cmd) /\ ipc' = "I582"
     ELSE txq' = <<>> /\ ipc' = "I687"
  /\ ret' = "I687"
  /\ UNCHANGED <<cmdVars, previousTime, hostVars, now, out, bootIdle>>

(* lines 687..701: payload of the previous command *)
bootStore ==
  /\ ipc = "I687"
  /\ repeatRate' = IF lastPS2cmd = repeatRateCmd THEN PS2cmd ELSE repeatRate
  /\ keyboardStatus' = IF lastPS2cmd = setStatusCmd THEN PS2cmd
                       ELSE keyboardStatus
  /\ setScanCodeVal' = IF lastPS2cmd = set_getScancode THEN PS2cmd
                       ELSE setScanCodeVal
  /\ IF scanSetBytes(lastPS2cmd, PS2cmd) # <<>>
     THEN txq' = scanSetBytes(lastPS2cmd, PS2cmd) /\ ipc' = "I582"
     ELSE txq' = <<>> /\ ipc' = "I703"
  /\ ret' = "I703"
  /\ UNCHANGED <<PS2cmd, lastPS2cmd, lastStored, previousTime, hostVars, now,
                 out, bootIdle>>

(* line 703, back to line 666 *)
bootLast ==
  /\ ipc = "I703"
  /\ lastPS2cmd' = PS2cmd
  /\ ipc' = "I666"
  /\ UNCHANGED <<PS2cmd, repeatRate, keyboardStatus, setScanCodeVal,
                 lastStored, previousTime, hostVars, now, txq, ret, out,
                 bootIdle>>

(* the statements of initPS2 *)
bootStep ==
  \/ bootOuter \/ bootWaitRequest \/ bootWaitRelease \/ bootTest \/ bootRead
  \/ bootSend \/ bootWindow \/ bootBusCheck \/ bootStore \/ bootLast

NextBoot == bootHostClk \/ bootHostData \/ bootTick \/ bootStep

(* the processor keeps executing; the busy waits poll the bus much faster   *)
(* than the motherboard moves it, so a bus state that keeps coming back is  *)
(* seen                                                                     *)
SpecBoot == InitBoot /\ [][NextBoot]_vars /\ SF_vars(bootStep)

(* ======================= properties ====================================== *)
IsPrefix(a, b) == Len(a) <= Len(b) /\ a = SubSeq(b, 1, Len(a))

RECURSIVE SumFromTo(_, _, _)
SumFromTo(q, lo, hi) == IF lo > hi THEN 0 ELSE q[lo] + SumFromTo(q, lo + 1, hi)

Ones(byte) == SumFromTo([i \in 1..8 |-> Bit(byte, i - 1)], 1, 8)

(* a key event is being translated or has been translated *)
KeyOp(keycode, makeBreak, modifier) ==
  opKind = "key" /\ opArg = <<keycode, makeBreak, modifier>>

(* C1: a key event without modifier, other than Pause and PrintScreen, is   *)
(* sent as: 0xF0 iff it is a release (makeBreak = 0), table byte [0], table *)
(* byte [1] iff it is non-zero, and nothing else; keycode 0x04 gives [0x1C] *)
(* on press and [0xF0, 0x1C] on release                                     *)
C1_PlainKeyBytes ==
  /\ \A k \in Keycodes \ {70, 72}, mb \in {0, 1} :
       KeyOp(k, mb, 0) =>
         LET entry == USBtoPS2scanSet2(k)
             expected == (IF mb = 0 THEN <<240>> ELSE <<>>)
                         \o <<entry[1]>>
                         \o (IF entry[2] # 0 THEN <<entry[2]>> ELSE <<>>)
         IN IsPrefix(out, expected) /\ (opDone => out = expected)
  /\ (KeyOp(4, 1, 0) /\ opDone => out = <<28>>)
  /\ (KeyOp(4, 0, 0) /\ opDone => out = <<240, 28>>)

C1_Witness ==
  KeyOp(79, 0, 0) /\ opDone /\ out = <<240, 224, 116>>

(* the make code of modifier bit 0..6: Ctrl, Shift, Alt, GUI left, then right *)
ModifierCode(bit) ==
  <<(<<20>>), (<<18>>), (<<17>>), (<<224, 39>>), (<<224, 20>>), (<<89>>),
    (<<224, 17>>)>>[bit + 1]

RECURSIVE ModifierExpected(_, _, _)
ModifierExpected(bit, modifier, makeBreak) ==
  IF bit > 6 THEN <<>>
  ELSE (IF Bit(modifier, bit) = 1
        THEN (IF makeBreak = 0 THEN <<240>> ELSE <<>>) \o ModifierCode(bit)
        ELSE <<>>)
       \o ModifierExpected(bit + 1, modifier, makeBreak)

(* C2: a key event with a non-zero modifier byte is sent as the sequence of *)
(* each asserted bit 0..6, in increasing bit order, 0xF0 first on release,  *)
(* and no byte of the keycode's table entry; left shift gives [0x12] on     *)
(* press and [0xF0, 0x12] on release                                        *)
C2_ModifierBytes ==
  /\ \A k \in Keycodes, mb \in {0, 1}, m \in Modifiers \ {0} :
       KeyOp(k, mb, m) =>
         /\ IsPrefix(out, ModifierExpected(0, m, mb))
         /\ (opDone => out = ModifierExpected(0, m, mb))
  /\ \A k \in Keycodes :
       /\ (KeyOp(k, 1, 2) /\ opDone => out = <<18>>)
       /\ (KeyOp(k, 0, 2) /\ opDone => out = <<240, 18>>)

C2_Witness ==
  KeyOp(4, 0, 3) /\ opDone /\ out = <<240, 20, 240, 18>>

(* C3: the 8 data bits and the parity bit a frame presents hold an odd      *)
(* number of ones, for every byte 0..255                                    *)
C3_OddParity ==
  Len(fallData) >= 10 => SumFromTo(fallData, 2, 10) % 2 = 1

C3_Witness ==
  fpc = "done" /\ outByte = 3 /\ fallData[10] = 1 /\ Len(fallData) = 11

(* C4: a frame is 11 clock pulses; the data line at the 11 falling edges is *)
(* 0, bits 0..7 of the byte, the odd parity bit, 1; the data line never     *)
(* changes while the device holds the clock low                             *)
C4_FrameBits ==
  /\ [](fpc = "done" =>
          /\ pulses = 11
          /\ fallData = <<0>> \o [i \in 1..8 |-> Bit(outByte, i - 1)]
                        \o <<1 - (Ones(outByte) % 2)>> \o <<1>>)
  /\ [][clkOut = LOW => dataOut' = dataOut]_vars

C4_Witness ==
  fpc = "done" /\ outByte = 28 /\ pulses = 11
  /\ fallData = <<0, 0, 0, 1, 1, 1, 0, 0, 0, 0, 1>>

(* C5: a clock low phase of more than 100 us with the data line low leaves  *)
(* PS2cmdReady true at the next poll of the main loop, and PS2cmdReady is   *)
(* never set at the end of a clock low phase shorter than 100 us            *)
C5_HostRequestDetection ==
  /\ [](pc = "poll" /\ hostReq => PS2cmdReady)
  /\ [][(~PS2cmdReady /\ PS2cmdReady') => ~(lowPhase' < cmdLowTime)]_vars

(* a byte has been read from the host and is being handled, or has been *)
CmdOp(byte) == opKind = "cmd" /\ opArg[1] = byte

(* the acknowledge step of parsePS2cmd is behind *)
AckStepDone ==
  opDone \/ pc \in {"clear", "window", "buscheck", "store", "last"}
         \/ (pc = "tx" /\ ret # "clear")

(* C6: for every received byte other than resend, 0xFA is transmitted, and  *)
(* it is the first byte transmitted after the reception                     *)
C6_AckFirst ==
  \A b \in RxBytes \ {resendCmd} :
    CmdOp(b) => /\ (out # <<>> => out[1] = 250)
                /\ (AckStepDone => out # <<>>)

C6_Witness ==
  CmdOp(readIdCmd) /\ opDone /\ out = <<250, 171, 131>>

(* C7: no 0xFA is transmitted for a received resend command (0xFE) *)
C7_NoAckForResend ==
  CmdOp(resendCmd) => \A i \in 1..Len(out) : out[i] # 250

(* C8: an uncontested reset (0xFF) is answered by exactly 0xFA, 0xAA *)
C8_ResetResponse ==
  CmdOp(resetKeybCmd) =>
    /\ IsPrefix(out, <<250, 170>>)
    /\ (opDone /\ elig => out = <<250, 170>>)

C8_Witness ==
  CmdOp(resetKeybCmd) /\ opDone /\ elig /\ out = <<250, 170>>

(* C9: an uncontested read-ID (0xF2) is answered by exactly 0xFA, 0xAB, 0x83 *)
C9_ReadIdResponse ==
  CmdOp(readIdCmd) =>
    /\ IsPrefix(out, <<250, 171, 131>>)
    /\ (opDone /\ elig => out = <<250, 171, 131>>)

C9_Witness ==
  CmdOp(readIdCmd) /\ opDone /\ elig /\ Len(out) = 3 /\ out[3] = 131

C11_PayloadNoReply ==
  \A b \in RxBytes :
    CmdOp(b) /\ opArg[2] \in {repeatRateCmd, setStatusCmd} =>
      /\ IsPrefix(out, <<250>>)
      /\ (opDone => out = <<250>>)

(* C12 as stated: after 0xF0 the byte 0x00 is answered by 0xFA, 0x41; a     *)
(* non-zero byte is stored as the payload and no 0x41 is transmitted        *)
C12_ScanSetQuery ==
  /\ (CmdOp(0) /\ opArg[2] = set_getScancode /\ opDone => out = <<250, 65>>)
  /\ \A b \in RxBytes \ {0} :
       CmdOp(b) /\ opArg[2] = set_getScancode =>
         /\ \A i \in 1..Len(out) : out[i] # 65
         /\ (opDone => setScanCodeVal = b)

(* C12 amended: the answer 0xFA, 0x41 and the store of the payload are      *)
(* given when PS2cmdReady is still false after the settle window; a         *)
(* non-zero byte after 0xF0 is never answered by 0x41                       *)
C12_ScanSetQueryUncontested ==
  /\ (CmdOp(0) /\ opArg[2] = set_getScancode /\ opDone /\ passed
        => out = <<250, 65>> /\ setScanCodeVal = 0)
  /\ \A b \in RxBytes \ {0} :
       CmdOp(b) /\ opArg[2] = set_getScancode =>
         /\ \A i \in 1..Len(out) : out[i] # 65
         /\ (opDone /\ passed => setScanCodeVal = b)

C12_Witness ==
  CmdOp(0) /\ opArg[2] = set_getScancode /\ opDone /\ passed
  /\ out = <<250, 65>>

(* C13: PS2cmdReady is never cleared while a host request that set it has   *)
(* not been read by readPS2cmd                                              *)
C13_FlagNotLost ==
  [][(PS2cmdReady /\ ~PS2cmdReady') => ~hostReq]_vars

(* C20: 0xAA, 0xAB 0x83, 0xEE are transmitted only if PS2cmdReady is still  *)
(* false after the settle window and the bus is then read idle; otherwise   *)
(* none of them is transmitted                                              *)
C20_ResponseOnlyIfEligible ==
  \A b \in {resetKeybCmd, readIdCmd, diagnosticCmd} :
    CmdOp(b) =>
      /\ (Len(out) > 1 => passed /\ elig)
      /\ (opDone /\ ~(passed /\ elig) => out = <<250>>)

C20_Witness ==
  CmdOp(readIdCmd) /\ opDone /\ passed /\ ~elig /\ out = <<250>>

(* the repeat-eligible keycodes: 0x04..0x27, 0x2A..0x2C, 0x4F..0x52 *)
Eligible == (4..39) \cup (42..44) \cup (79..82)

(* C15: a press (makeBreak = 1, the event sent without 0xF0) of an eligible *)
(* keycode without modifier records the key as the autorepeat candidate; a  *)
(* release (makeBreak = 0, sent with 0xF0) without modifier clears it       *)
C15_RepeatCandidate ==
  \A k \in Keycodes :
    /\ (KeyOp(k, 1, 0) /\ k \in Eligible
          => gotMakeKey /\ lastUSBkeycode = k /\ keyPressedTime <= now)
    /\ (KeyOp(k, 0, 0) => ~gotMakeKey)

(* C16: an autorepeat burst is only ever emitted for a key that is held     *)
(* down: none after the release of the key has been handled                 *)
C16_RepeatWhileHeld ==
  opKind = "rpt" => opArg[1] \in held

(* the table bytes of a keycode: byte [0], and byte [1] unless it is zero  *)
Entry(k) ==
  <<USBtoPS2scanSet2(k)[1]>>
  \o (IF USBtoPS2scanSet2(k)[2] = 0 THEN <<>> ELSE <<USBtoPS2scanSet2(k)[2]>>)

(* C17: on a loop pass a burst starts iff a candidate is armed and more     *)
(* than 270 ms have elapsed since the timer was armed; the burst is 0xF0,   *)
(* the table bytes, the gap, the table bytes again; the timer is reset      *)
(* after it; two consecutive bursts start more than 270 ms apart            *)
C17_RepeatBurst ==
  /\ [](opKind = "rpt" =>
          LET expected == <<240>> \o Entry(opArg[1]) \o Entry(opArg[1])
          IN /\ IsPrefix(out, expected)
             /\ (opDone => out = expected)
             /\ (Len(out) > 1 + Len(Entry(opArg[1]))
                   => now >= bursts[Len(bursts)] + makeBreakPS2delay))
  /\ [](\A i \in 1..(Len(bursts) - 1) : bursts[i + 1] - bursts[i] > 270)
  /\ [][pc = "repeat" /\ pc' # "repeat" =>
          ((pc' = "tx" /\ opKind' = "rpt")
             <=> (gotMakeKey /\ now - keyPressedTime > 270))]_vars
  /\ [][pc = "restart" /\ pc' # "restart" => keyPressedTime' = now']_vars

C17_Witness ==
  opKind = "rpt" /\ opDone /\ out = <<240, 224, 116, 224, 116>>
  /\ Len(bursts) = 2

(* C14: while a received command is being acknowledged and answered no key  *)
(* event is translated, no autorepeat burst starts and every byte sent      *)
(* comes from parsePS2cmd; while the scan codes of a key event or of a      *)
(* burst are being sent no host command is read and every byte sent comes   *)
(* from that sequence                                                       *)
C14_NoOverlap ==
  /\ [][(opKind = "cmd" /\ ~opDone) =>
          (nKeys' = nKeys /\ bursts' = bursts
           /\ (out' # out => ret \in {"clear", "store", "last"}))]_vars
  /\ [][(opKind \in {"key", "rpt"} /\ ~opDone) =>
          (nCmds' = nCmds
           /\ (out' # out => ret \in {"gap", "restart", "keydone"}))]_vars

C14_Witness ==
  opKind = "rpt" /\ pc = "gap" /\ PS2cmdReady /\ hostReq /\ out = <<240, 28>>

(* C18 as stated: the start bit is driven only in a state where the host    *)
(* asserts neither the clock nor the data line                              *)
C18_SpeakOnlyWhenIdle ==
  [][(fpc = "L247" /\ fpc' = "L249") => (hostClk = HIGH /\ hostData = HIGH)]_vars

(* C18 amended: the start bit is driven only after a readPS2bus that read   *)
(* the data line high and then the clock line high                          *)
C18_SpeakAfterIdleRead ==
  fpc \in {"L247", "L249"} => busByte = Clk_Data

C18_Witness ==
  fpc = "L249" /\ dataOut = LOW /\ busByte = Clk_Data /\ hostClk = LOW

(* the bit cells of a frame: the high phase before a pulse plus its low     *)
(* phase (the first pulse follows the idle bus), or a low phase plus the    *)
(* high phase after it                                                      *)
CellsHighLow == [i \in 2..Len(lowLog) |-> highLog[i] + lowLog[i]]
CellsLowHigh == [i \in 1..(Len(lowLog) - 1) |-> lowLog[i] + highLog[i + 1]]
Constant(f) == \A i, j \in DOMAIN f : f[i] = f[j]

(* C19 as stated: in a frame of sendPS2byte and in a reception of           *)
(* readPS2cmd the programmed low plus high duration is the same for every   *)
(* bit cell                                                                 *)
C19_ConstantBitCell ==
  fpc \in {"done", "rxdone"} => Constant(CellsHighLow) \/ Constant(CellsLowHigh)

(* C19 amended: every bit cell of a reception is 24 + 40 us; in a frame of  *)
(* sendPS2byte only the 8 data bits have equal cells (36 + 26 us), start,   *)
(* parity and stop have a low phase of 30 us                                *)
C19_BitCellTimes ==
  /\ fpc = "rxdone" =>
       /\ Constant(CellsHighLow) /\ Constant(CellsLowHigh)
       /\ lowLog = [i \in 1..12 |-> 24]
       /\ Tail(highLog) = [i \in 1..11 |-> 40]
  /\ fpc = "done" =>
       /\ \A i, j \in 2..9 : CellsHighLow[i] = CellsHighLow[j]
       /\ lowLog = <<30, 26, 26, 26, 26, 26, 26, 26, 26, 30, 30>>
       /\ highLog = <<20, 36, 36, 36, 36, 36, 36, 36, 36, 40, 40>>

C19_Witness ==
  fpc = "rxdone" /\ Len(lowLog) = 12 /\ rxByte = 237 /\ CellsLowHigh[11] = 64

(* the bytes parsePS2cmd sends after the acknowledge *)
DataResponses == {selfTestOk, readIdByte1, readIdByte2, diagnosticCmd,
                  scanCodeVal}

(* a step in which sendPS2byte starts the frame of a data response *)
DataResponseStarts ==
  /\ opKind = "cmd" /\ Len(out) >= 1
  /\ Len(out') = Len(out) + 1
  /\ out'[Len(out')] \in DataResponses

(* C21 as stated: no data response byte (0xAA, 0xAB, 0x83, 0xEE, 0x41)      *)
(* starts being transmitted while PS2cmdReady is true                       *)
C21_NoResponseWhilePending ==
  [][DataResponseStarts => ~PS2cmdReady]_vars

(* C21 amended: a data response byte starts being transmitted only if       *)
(* PS2cmdReady was false at the one test after the settle window, only if   *)
(* the bus was read idle at the one re-check (0x41 excepted, which has no   *)
(* re-check), and only after sendPS2byte has read the bus idle              *)
C21_ResponseAfterChecks ==
  [][DataResponseStarts =>
       (passed /\ readPS2bus = Clk_Data
        /\ (out'[Len(out')] # scanCodeVal => elig))]_vars

C21_Witness ==
  CmdOp(readIdCmd) /\ PS2cmdReady /\ hostReq /\ passed /\ elig
  /\ out = <<250, 171, 131>>

(* C22 as stated: a byte received while lastPS2cmd is 0xF3 is stored in     *)
(* repeatRate, a byte received while lastPS2cmd is 0xED is stored in        *)
(* keyboardStatus, on every path through parsePS2cmd                        *)
C22_PayloadStored ==
  \A b \in RxBytes :
    /\ (CmdOp(b) /\ opArg[2] = repeatRateCmd /\ opDone => repeatRate = b)
    /\ (CmdOp(b) /\ opArg[2] = setStatusCmd /\ opDone => keyboardStatus = b)

(* C22 amended: the byte is stored when PS2cmdReady is still false after    *)
(* the settle window, and repeatRate and keyboardStatus change on no other  *)
(* path                                                                     *)
C22_PayloadStoredUncontested ==
  /\ [](\A b \in RxBytes :
          /\ (CmdOp(b) /\ opArg[2] = repeatRateCmd /\ opDone /\ passed
                => repeatRate = b)
          /\ (CmdOp(b) /\ opArg[2] = setStatusCmd /\ opDone /\ passed
                => keyboardStatus = b))
  /\ [][(repeatRate' # repeatRate) =>
          (passed /\ lastPS2cmd = repeatRateCmd /\ repeatRate' = PS2cmd)]_vars
  /\ [][(keyboardStatus' # keyboardStatus) =>
          (passed /\ lastPS2cmd = setStatusCmd
           /\ keyboardStatus' = PS2cmd)]_vars

C22_Witness ==
  CmdOp(245) /\ opArg[2] = repeatRateCmd /\ opDone /\ passed
  /\ repeatRate = 245 /\ keyboardStatus = 0

(* C23: the byte that follows a payload byte is never itself treated as a   *)
(* payload, whatever the payload's value: no byte is stored by lines        *)
(* 347..358 when the byte before it was stored by them                      *)
C23_PayloadThenCommand ==
  [][(pc = "store" /\ pc' # "store" /\ lastPS2cmd \in PayloadCmds)
       => ~lastStored]_vars

(* C24: once sendPS2byte has passed its bus-idle wait, or readPS2cmd has    *)
(* started, it performs all of its clock pulses (11, 12) and returns,       *)
(* whatever the host does on the two lines in the meantime                  *)
C24_NoCancellation ==
  /\ (fpc = "L247" ~> fpc = "done")
  /\ (fpc = "R288" ~> fpc = "rxdone")
  /\ [](fpc = "done" => pulses = 11 /\ Len(lowLog) = 11)
  /\ [](fpc = "rxdone" => pulses = 12 /\ Len(rxBits) = 9)
  /\ [][fpc \notin {"L246", "L324"} => fpc' \notin {"L246", "L324"}]_vars

C24_Witness ==
  fpc = "done" /\ pulses = 11 /\ hostClk = LOW /\ hostData = LOW
  /\ outByte = 170

(* C25: readPS2cmd samples the data line 9 times, the i-th sample at its    *)
(* i-th clock rising edge; bit i (0..7) of the returned byte is sample i;   *)
(* the 9th sample has no influence, a wrong parity bit is not rejected      *)
C25_ReceivedByte ==
  /\ [](fpc = "rxdone" =>
          /\ Len(rxBits) = 9
          /\ rxByte \in 0..255
          /\ \A i \in 0..7 : Bit(rxByte, i) = rxBits[i + 1]
          /\ rxByte = rxAssemble(SubSeq(rxBits, 1, 8) \o <<1 - rxBits[9]>>, 0))
  /\ [][rxBits' # rxBits =>
          (clkOut = LOW /\ clkOut' = HIGH /\ pulses' <= 9
           /\ Len(rxBits') = pulses'
           /\ rxBits' = Append(rxBits, dataBus))]_vars

(* 0xED with the parity sample 0: even number of ones in the nine samples *)
C25_Witness ==
  fpc = "rxdone" /\ rxByte = 237 /\ rxBits[9] = 0 /\ pulses = 12

(* C26: without modifier, Pause (0x48) is sent as the 8 bytes of            *)
(* PrtPauseMake on press and as no byte on release, PrintScreen (0x46) as   *)
(* the 4 bytes of PrtScrMake on press and the 6 bytes of PrtScrBreak on     *)
(* release, and nothing else is sent for them                               *)
C26_SpecialKeys ==
  /\ (KeyOp(72, 1, 0) =>
        IsPrefix(out, PrtPauseMake) /\ (opDone => out = PrtPauseMake))
  /\ (KeyOp(72, 0, 0) => out = <<>>)
  /\ (KeyOp(70, 1, 0) =>
        IsPrefix(out, PrtScrMake) /\ (opDone => out = PrtScrMake))
  /\ (KeyOp(70, 0, 0) =>
        IsPrefix(out, PrtScrBreak) /\ (opDone => out = PrtScrBreak))
  /\ Len(PrtPauseMake) = 8 /\ Len(PrtScrMake) = 4 /\ Len(PrtScrBreak) = 6

C26_Witness ==
  KeyOp(72, 0, 0) /\ opDone /\ out = <<>> /\ nKeys = 2 /\ held = {}

(* C27: after a key release event, with or without modifier bits, no       *)
(* autorepeat candidate is armed; after a key press event the candidate is  *)
(* the key just pressed or none                                             *)
C27_OneRepeatKey ==
  \A k \in Keycodes, m \in Modifiers :
    /\ (KeyOp(k, 0, m) => ~gotMakeKey)
    /\ (KeyOp(k, 1, m) => (~gotMakeKey \/ lastUSBkeycode = k))

(* C28: with a host that follows the protocol, every request that sets      *)
(* PS2cmdReady is eventually read by readPS2cmd and acknowledged, and the   *)
(* main loop never stays in the bus-idle wait of sendPS2byte forever        *)
C28_RequestServed ==
  /\ ((PS2cmdReady /\ hostReq) ~> (opKind = "cmd" /\ out # <<>>))
  /\ []<>(pc # "tx")

(* C29: when the host asserts neither line, no clock low phase of a frame   *)
(* of sendPS2byte or readPS2cmd is measured by the edge handler as longer   *)
(* than 100 us, and PS2cmdReady stays false throughout the frame, also      *)
(* while the device drives the data line low                                *)
C29_OwnFramesNotFlagged ==
  /\ ~PS2cmdReady
  /\ lowPhase <= cmdLowTime /\ clkLowCounter <= cmdLowTime
  /\ hostClk = HIGH /\ hostData = HIGH
  /\ \A i \in 1..Len(lowLog) : lowLog[i] + isrTime <= cmdLowTime

(* the rising edge that ends the start bit's pulse: data driven low *)
C29_Witness ==
  fpc = "L254" /\ pulses = 1 /\ dataOut = LOW /\ dataBus = LOW
  /\ lowPhase = clkLowBitTime + isrTime /\ clkLowCounter = lowPhase
  /\ ~timerOn /\ ~PS2cmdReady

(* C30: when sendPS2byte or readPS2cmd is entered and when it has returned, *)
(* for every byte, the device drives neither line low: the clock output     *)
(* and the data output are both high                                        *)
C30_BusReleased ==
  fpc \in {"L246", "R288", "done", "rxdone"} =>
    clkOut = HIGH /\ dataOut = HIGH

(* a byte with an odd number of ones: the parity bit drove the data low *)
C30_Witness ==
  fpc = "done" /\ outByte = 1 /\ fallData[10] = LOW
  /\ clkOut = HIGH /\ dataOut = HIGH

(* C31: whenever an autorepeat candidate is armed, lastUSBkeycode lies in   *)
(* 0x04..0x27, 0x2A..0x2C or 0x4F..0x52; a burst is made of 0xF0 and the    *)
(* table bytes of such a key, never of Pause or PrintScreen                 *)
C31_CandidateEligible ==
  /\ (gotMakeKey => lastUSBkeycode \in Eligible)
  /\ (opKind = "rpt" =>
        /\ opArg[1] \in Eligible \ {70, 72}
        /\ IsPrefix(out, <<240>> \o Entry(opArg[1]) \o Entry(opArg[1])))

C31_Witness ==
  gotMakeKey /\ lastUSBkeycode = 79 /\ opKind = "rpt" /\ opArg = <<79>>
  /\ out = <<240, 224, 116>> /\ pc = "gap"

(* the bytes of a key event, from the event alone *)
KeyExpected(k, mb, m) ==
  IF m # 0 THEN ModifierExpected(0, m, mb)
  ELSE IF k = 72 THEN (IF mb = 1 THEN PrtPauseMake ELSE <<>>)
  ELSE IF k = 70 THEN (IF mb = 1 THEN PrtScrMake ELSE PrtScrBreak)
  ELSE (IF mb = 0 THEN <<240>> ELSE <<>>) \o Entry(k)

(* the statements of parsePS2cmd *)
InCommand ==
  \/ pc \in {"rx", "clear", "window", "buscheck", "store", "last"}
  \/ (pc = "tx" /\ opKind = "cmd")

(* C32: the bytes sent for a key event are those of the event alone,        *)
(* whatever commands the host has sent before (keyboard disable, set        *)
(* repeat rate and its payload included), and no statement of parsePS2cmd   *)
(* changes gotMakeKey, lastUSBkeycode or keyPressedTime                     *)
C32_KeysIndependentOfCommands ==
  /\ [](opKind = "key" =>
          /\ IsPrefix(out, KeyExpected(opArg[1], opArg[2], opArg[3]))
          /\ (opDone => out = KeyExpected(opArg[1], opArg[2], opArg[3])))
  /\ [][InCommand =>
          (gotMakeKey' = gotMakeKey /\ lastUSBkeycode' = lastUSBkeycode
           /\ keyPressedTime' = keyPressedTime)]_vars

(* a key released after keyboard disable, set repeat rate and its payload *)
C32_Witness ==
  KeyOp(4, 0, 0) /\ opDone /\ out = <<240, 28>> /\ gotMakeKey
  /\ lastPS2cmd = keybDisableCmd /\ repeatRate = keybDisableCmd /\ nCmds = 2

C35_BootTerminates ==
  /\ (~bootInTime ~> ipc = "I706")
  /\ [][(ipc = "I669" /\ ipc' = "I670") => bootInTime]_vars

====
